---------------------------- MODULE Spec2Model ----------------------------
(***************************************************************************)
(* A model of the calculator API (src/main.py, src/utils/math_utils.py)    *)
(* and of the spam-model trainer (src/ml/trainer.py).                      *)
(*                                                                         *)
(* Text is modelled as a sequence of pieces.  Every literal fragment of an *)
(* f-string is one piece, a caller-supplied name is one piece (the empty   *)
(* string has no piece), and a number is rendered digit by digit, the way  *)
(* Python's str(int) renders it.                                           *)
(***************************************************************************)
EXTENDS Integers, Sequences

\* ------------------------------------------------------------------ bounds

\* The number of accepted additions explored.
MaxAdds == 2

\* The number of calls of train_and_save_model and download_data explored.
MaxCalls == 4

\* ------------------------------------------------------------------- text

Digits == <<"0", "1", "2", "3", "4", "5", "6", "7", "8", "9">>

RECURSIVE NatToStr(_)
\* The decimal digits of a natural number, most significant first.
NatToStr(n) ==
    IF n < 10 THEN <<Digits[n + 1]>>
    ELSE NatToStr(n \div 10) \o <<Digits[(n % 10) + 1]>>

\* Python's str(int), which an f-string applies to {a}, {b} and {result}.
IntToStr(n) == IF n < 0 THEN <<"-">> \o NatToStr(-n) ELSE NatToStr(n)

IsDigit(c) == \E d \in 1..10 : Digits[d] = c

DigitVal(c) == (CHOOSE d \in 1..10 : Digits[d] = c) - 1

RECURSIVE ParseNat(_)
ParseNat(s) ==
    IF Len(s) = 0 THEN 0
    ELSE ParseNat(SubSeq(s, 1, Len(s) - 1)) * 10 + DigitVal(s[Len(s)])

\* The text of an integer: an optional sign, then one digit or more.
IsIntText(s) ==
    LET body == IF Len(s) > 0 /\ s[1] \in {"-", "+"} THEN Tail(s) ELSE s
    IN  Len(body) > 0 /\ \A i \in 1..Len(body) : IsDigit(body[i])

ParseInt(s) ==
    IF s[1] = "-" THEN 0 - ParseNat(Tail(s))
    ELSE IF s[1] = "+" THEN ParseNat(Tail(s))
    ELSE ParseNat(s)

\* ---------------------------------------------------------------- inputs

\* A JSON value offered for an integer field of the request body.
JInt(n) == [kind |-> "int", int |-> n, text |-> <<>>]
JStr(s) == [kind |-> "str", int |-> 0, text |-> s]
JMissing == [kind |-> "missing", int |-> 0, text |-> <<>>]

\* An Optional[str]: None, or a string (its pieces).
NoneStr == [given |-> FALSE, text |-> <<>>]
SomeStr(s) == [given |-> TRUE, text |-> s]

RawA == {JInt(-11), JInt(2), JInt(5), JStr(<<"a", "b", "c">>), JMissing}
RawB == {JInt(2), JInt(3), JStr(<<"4", "0">>), JMissing}
Names == {NoneStr, SomeStr(<<>>), SomeStr(<<"Alice">>)}
Limits == {1, 2}

\* ------------------------------------------------------------- Calculator

VARIABLES
    history,    \* calc.history: the list of recorded operations
    last,       \* the most recent request and the response it got
    served,     \* what each accepted addition was given and returned, in order
    op,         \* the function of trainer.py called last
    pc,         \* where that call stands
    mlDir,      \* whether the directory "ml" exists
    dataFile,   \* the file at DATA_PATH: "absent" or what it holds
    modelFile,  \* the file at MODEL_PATH: "absent" or what it holds
    calls,      \* calls begun
    downloads,  \* datasets fetched from URL
    fits,       \* pipeline.fit runs
    dumps,      \* joblib.dump runs
    started,    \* what the current (or last) call found when it began
    ret         \* how the last call ended

calcVars == <<history, last, served>>
mlVars == <<op, pc, mlDir, dataFile, modelFile, calls, downloads, fits, dumps,
            started, ret>>
vars == <<history, last, served, op, pc, mlDir, dataFile, modelFile, calls,
          downloads, fits, dumps, started, ret>>

\* pydantic's validation of one `int` field: an integer passes, the text of
\* an integer is converted, anything else (or nothing) is an error.
IntField(raw) ==
    IF raw.kind = "int" THEN [ok |-> TRUE, int |-> raw.int]
    ELSE IF raw.kind = "str" /\ IsIntText(raw.text)
         THEN [ok |-> TRUE, int |-> ParseInt(raw.text)]
    ELSE [ok |-> FALSE, int |-> 0]

\* The AddRequest model: a and b are required integers, name is optional.
AddRequest(rawA, rawB, name) ==
    LET fa == IntField(rawA)
        fb == IntField(rawB)
    IN  [ok |-> fa.ok /\ fb.ok, a |-> fa.int, b |-> fb.int, name |-> name]

\* f"{a} + {b} = {result}"
Entry(a, b, result) ==
    IntToStr(a) \o <<" + ">> \o IntToStr(b) \o <<" = ">> \o IntToStr(result)

\* Calculator.add_and_record keeping one entry per distinct operation.
add_and_record_dedupe(h, a, b) ==
    LET result == a + b
        e == Entry(a, b, result)
    IN  [history |-> IF \E i \in 1..Len(h) : h[i] = e THEN h ELSE Append(h, e),
         ret |-> result]

\* Calculator.add_and_record keeping only the latest entry.
add_and_record_latest(h, a, b) ==
    LET result == a + b
    IN  [history |-> <<Entry(a, b, result)>>, ret |-> result]

\* Calculator.add_and_record computing a - b.
add_and_record_minus(h, a, b) ==
    LET result == a - b
    IN  [history |-> Append(h, Entry(a, b, result)), ret |-> result]

\* Calculator.add_and_record: the new history list and the value returned.
add_and_record(h, a, b) ==
    LET result == a + b
    IN  [history |-> Append(h, Entry(a, b, result)), ret |-> result]

\* Calculator.get_history handing the list over and emptying it.
get_history_draining(h) == [history |-> <<>>, ret |-> h]

\* Calculator.get_history: the whole list, in insertion order.
get_history(h) == [history |-> h, ret |-> h]

\* The greeting of calc_add when only None counts as "no name".
greeting_not_none(name) ==
    IF name.given THEN <<", ">> \o name.text ELSE <<>>

\* greeting = f", {request.name}" if request.name else ""
greeting(name) ==
    IF name.given /\ Len(name.text) > 0 THEN <<", ">> \o name.text ELSE <<>>

\* The count taken without the entry just appended.
history_count_stale(h) == Len(h) - 1

\* len(calc.history), taken after add_and_record has returned
history_count(h) == Len(h)

\* f"{request.a} + {request.b}"
operation(a, b) == IntToStr(a) \o <<" + ">> \o IntToStr(b)

\* The handler calc_add on a validated request: the new history and the
\* payload returned.
calc_add(h, request) ==
    LET r == add_and_record(h, request.a, request.b)
    IN  [history |-> r.history,
         status |-> 200,
         body |-> [result |-> r.ret,
                   operation |-> operation(request.a, request.b),
                   history_count |-> history_count(r.history),
                   message |-> <<"Calculation successful">>
                               \o greeting(request.name) \o <<"!">>]]

\* The handler home.
home(h) ==
    [history |-> h,
     status |-> 200,
     body |-> [message |-> <<"Welcome to AI Engineer Module 0 - FastAPI Edition!">>,
               docs |-> <<"/docs">>,
               redoc |-> <<"/redoc">>,
               status |-> <<"running perfectly">>]]

\* The handler hello; name defaults to "World".
hello(h, name) ==
    LET who == IF name.given THEN name.text ELSE <<"World">>
    IN  [history |-> h,
         status |-> 200,
         body |-> [message |-> <<"Hello, ">> \o who
                               \o <<"! Welcome to FastAPI in 2025">>]]

\* The handler health.
health(h) == [history |-> h, status |-> 200, body |-> [status |-> <<"healthy">>]]

\* The response to a request body that fails validation: the handler is
\* not called.
Unprocessable(h) == [history |-> h, status |-> 422, body |-> [detail |-> <<"invalid">>]]

NoRequest == [ok |-> FALSE, a |-> 0, b |-> 0, name |-> NoneStr]

NoBody == [a |-> JMissing, b |-> JMissing]

\* A request and its response; `before` is the history the request found.
Exchange(endpoint, raw, request, limit, before, r) ==
    [endpoint |-> endpoint, raw |-> raw, request |-> request, limit |-> limit,
     before |-> before, status |-> r.status, body |-> r.body]

\* GET /
GetRoot ==
    LET r == home(history)
    IN  /\ history' = r.history
        /\ last' = Exchange("home", NoBody, NoRequest, 0, history, r)
        /\ UNCHANGED <<served, mlVars>>

\* GET /api/hello?name=...
GetApiHello ==
    \E name \in Names :
        LET r == hello(history, name)
        IN  /\ history' = r.history
            /\ last' = Exchange("hello", NoBody,
                                [NoRequest EXCEPT !.name = name], 0, history, r)
            /\ UNCHANGED <<served, mlVars>>

\* GET /health
GetHealth ==
    LET r == health(history)
    IN  /\ history' = r.history
        /\ last' = Exchange("health", NoBody, NoRequest, 0, history, r)
        /\ UNCHANGED <<served, mlVars>>

\* POST /api/calc/add: the body is validated against AddRequest, and the
\* handler runs only on a valid one.  The handler is a coroutine without an
\* await, so it runs to its end before another request is served.
PostApiCalcAdd ==
    \E rawA \in RawA, rawB \in RawB, name \in Names :
        LET request == AddRequest(rawA, rawB, name)
            r == IF request.ok THEN calc_add(history, request)
                 ELSE Unprocessable(history)
        IN  /\ request.ok => Len(served) < MaxAdds
            /\ history' = r.history
            /\ last' = Exchange("calc_add", [a |-> rawA, b |-> rawB], request,
                                0, history, r)
            /\ served' = IF request.ok
                         THEN Append(served,
                                     [a |-> request.a, b |-> request.b,
                                      result |-> r.body.result,
                                      operation |-> r.body.operation,
                                      history_count |-> r.body.history_count])
                         ELSE served
            /\ UNCHANGED mlVars

\* A listing of the history is asked for with a limit; Calculator.get_history
\* is the only listing there is, and it takes no argument.
ListHistory ==
    \E limit \in Limits :
        LET r == get_history(history)
        IN  /\ history' = r.history
            /\ last' = Exchange("get_history", NoBody, NoRequest, limit,
                                history,
                                [status |-> 200, body |-> [list |-> r.ret]])
            /\ UNCHANGED <<served, mlVars>>

CalcInit ==
    /\ history = <<>>
    /\ last = Exchange("none", NoBody, NoRequest, 0, <<>>,
                       [status |-> 0, body |-> [none |-> TRUE]])
    /\ served = <<>>

CalcNext == GetRoot \/ GetApiHello \/ GetHealth \/ PostApiCalcAdd \/ ListHistory

\* ---------------------------------------------------------------- trainer

\* os.path.exists(MODEL_PATH) answering "no" whatever is on disk.
ModelFound_never(m) == FALSE

\* os.path.exists(MODEL_PATH)
ModelFound(m) == m # "absent"

\* download_data once the fetch succeeds: the dataset file afterwards, and
\* the number of fetches made.
download_data(d) ==
    IF d = "absent" THEN [data |-> "downloaded", fetched |-> 1]
    ELSE [data |-> d, fetched |-> 0]

\* train_and_save_model is entered: os.makedirs("ml", exist_ok=True).
TrainerEnter ==
    /\ pc = "idle"
    /\ calls < MaxCalls
    /\ calls' = calls + 1
    /\ mlDir' = TRUE
    /\ started' = [model |-> modelFile, data |-> dataFile,
                   downloads |-> downloads, fits |-> fits, dumps |-> dumps]
    /\ ret' = "running"
    /\ op' = "train_and_save_model"
    /\ pc' = "exists"
    /\ UNCHANGED <<dataFile, modelFile, downloads, fits, dumps, calcVars>>

\* The artifact is there: joblib.load(MODEL_PATH) is returned.
TrainerLoad ==
    /\ pc = "exists"
    /\ ModelFound(modelFile)
    /\ ret' = "loaded"
    /\ pc' = "idle"
    /\ UNCHANGED <<op, mlDir, dataFile, modelFile, calls, downloads, fits,
                   dumps, started, calcVars>>

\* The artifact is not there: training starts with download_data().
TrainerTrainFromScratch ==
    /\ pc = "exists"
    /\ ~ModelFound(modelFile)
    /\ pc' = "download"
    /\ UNCHANGED <<op, mlDir, dataFile, modelFile, calls, downloads, fits,
                   dumps, started, ret, calcVars>>

\* download_data is called on its own.
DownloadEnter ==
    /\ pc = "idle"
    /\ calls < MaxCalls
    /\ calls' = calls + 1
    /\ started' = [model |-> modelFile, data |-> dataFile,
                   downloads |-> downloads, fits |-> fits, dumps |-> dumps]
    /\ ret' = "running"
    /\ op' = "download_data"
    /\ pc' = "download"
    /\ UNCHANGED <<mlDir, dataFile, modelFile, downloads, fits, dumps, calcVars>>

\* download_data returns, to train_and_save_model or to its own caller: the
\* dataset was there, or it was fetched and saved.
DownloadData ==
    /\ pc = "download"
    /\ LET d == download_data(dataFile)
       IN  /\ dataFile' = d.data
           /\ downloads' = downloads + d.fetched
    /\ mlDir' = TRUE
    /\ IF op = "train_and_save_model"
       THEN pc' = "fit" /\ ret' = ret
       ELSE pc' = "idle" /\ ret' = "returned"
    /\ UNCHANGED <<op, modelFile, calls, fits, dumps, started, calcVars>>

\* pd.read_csv(URL) raises (no network): the exception leaves download_data
\* and train_and_save_model, and no file is written.
DownloadFails ==
    /\ pc = "download"
    /\ download_data(dataFile).fetched > 0
    /\ mlDir' = TRUE
    /\ ret' = "error"
    /\ pc' = "idle"
    /\ UNCHANGED <<op, dataFile, modelFile, calls, downloads, fits, dumps,
                   started, calcVars>>

\* The dataset is read and split, and the pipeline is fitted and evaluated.
TrainerFit ==
    /\ pc = "fit"
    /\ fits' = fits + 1
    /\ pc' = "dump"
    /\ UNCHANGED <<op, mlDir, dataFile, modelFile, calls, downloads, dumps,
                   started, ret, calcVars>>

\* joblib.dump(pipeline, MODEL_PATH); the pipeline is returned.
TrainerDump ==
    /\ pc = "dump"
    /\ modelFile' = "trained"
    /\ dumps' = dumps + 1
    /\ ret' = "trained"
    /\ pc' = "idle"
    /\ UNCHANGED <<op, mlDir, dataFile, calls, downloads, fits, started,
                   calcVars>>

\* The process has not called train_and_save_model yet.
MlIdle ==
    /\ op = "none"
    /\ pc = "idle"
    /\ calls = 0
    /\ downloads = 0
    /\ fits = 0
    /\ dumps = 0
    /\ ret = "none"
    /\ started = [model |-> "absent", data |-> "absent",
                  downloads |-> 0, fits |-> 0, dumps |-> 0]

\* A fresh checkout: no directory "ml", no dataset, no artifact.
MlFresh ==
    /\ MlIdle
    /\ mlDir = FALSE
    /\ dataFile = "absent"
    /\ modelFile = "absent"

\* What may be on disk when the process starts.
MlInit ==
    /\ MlIdle
    /\ mlDir \in BOOLEAN
    /\ dataFile \in {"absent", "preexisting"}
    /\ modelFile \in {"absent", "prebuilt"}
    /\ (~mlDir) => (dataFile = "absent" /\ modelFile = "absent")

MlNext ==
    \/ TrainerEnter
    \/ TrainerLoad
    \/ TrainerTrainFromScratch
    \/ DownloadEnter
    \/ DownloadData
    \/ DownloadFails
    \/ TrainerFit
    \/ TrainerDump

\* --------------------------------------------------------- specifications

Init == CalcInit /\ MlFresh

Next == CalcNext

\* The calculator API serving requests.
Spec == Init /\ [][Next]_vars

TrainerInit == CalcInit /\ MlInit

\* Successive calls of train_and_save_model.
TrainerSpec == TrainerInit /\ [][MlNext]_vars

\* ------------------------------------------------------------ properties

\* The place of the first piece p in the text s.
IndexOf(s, p) ==
    CHOOSE i \in 1..Len(s) : s[i] = p /\ \A j \in 1..(i - 1) : s[j] # p

HasPiece(s, p) == \E i \in 1..Len(s) : s[i] = p

\* "<a> + <b>" read back as the two numbers.
ReadOperation(o) ==
    LET i == IndexOf(o, " + ")
    IN  <<ParseInt(SubSeq(o, 1, i - 1)), ParseInt(SubSeq(o, i + 1, Len(o)))>>

WellFormedEntry(e) ==
    /\ HasPiece(e, " + ")
    /\ HasPiece(e, " = ")
    /\ LET i == IndexOf(e, " + ")
           k == IndexOf(e, " = ")
       IN  /\ i < k
           /\ IsIntText(SubSeq(e, 1, i - 1))
           /\ IsIntText(SubSeq(e, i + 1, k - 1))
           /\ IsIntText(SubSeq(e, k + 1, Len(e)))

\* A history entry read back as a record.  The entry is the text
\* "<a> + <b> = <result>": it holds the three numbers and no name.
ReadEntry(e) ==
    LET i == IndexOf(e, " + ")
        k == IndexOf(e, " = ")
    IN  [a |-> ParseInt(SubSeq(e, 1, i - 1)),
         b |-> ParseInt(SubSeq(e, i + 1, k - 1)),
         result |-> ParseInt(SubSeq(e, k + 1, Len(e))),
         name |-> NoneStr]

IsPrefix(s, t) == Len(s) <= Len(t) /\ SubSeq(t, 1, Len(s)) = s

Min(m, n) == IF m < n THEN m ELSE n

Added == last.endpoint = "calc_add" /\ last.status = 200

Rejected == last.endpoint = "calc_add" /\ last.status = 422

\* C1: an accepted addition returns result = a + b, and its operation field
\* is the text "<a> + <b>" of the same two operands.
C1_AddReturnsSum ==
    Added =>
        /\ last.body.result = last.request.a + last.request.b
        /\ HasPiece(last.body.operation, " + ")
        /\ ReadOperation(last.body.operation) = <<last.request.a, last.request.b>>
        /\ last.body.operation
             = IntToStr(last.request.a) \o <<" + ">> \o IntToStr(last.request.b)

\* An addition of a negative number and a converted one, on a store that
\* already holds records.
C1_Witness ==
    /\ Added
    /\ last.request.a = -11
    /\ last.request.b = 40
    /\ last.body.result = 29
    /\ last.body.operation = <<"-", "1", "1", " + ", "4", "0">>
    /\ Len(last.before) >= 1

\* C2: after n accepted additions the store holds n records (it starts
\* empty), the k-th accepted addition reports history_count = k, and the
\* count reported is the store's count right after that addition's append.
C2_CountTracksAdditions ==
    /\ Len(history) = Len(served)
    /\ \A k \in 1..Len(served) : served[k].history_count = k
    /\ Added => /\ Len(history) = Len(last.before) + 1
                /\ last.body.history_count = Len(history)

\* The second accepted addition has reported a count of 2.
C2_Witness ==
    /\ Added
    /\ Len(served) = 2
    /\ last.body.history_count = 2

\* C3: every accepted addition has a record of its own.  The place of a
\* record in the list (which the addition reports as history_count) is its
\* identity: no two additions share one, the record at that place is the
\* addition's, and a listing made afterwards holds it there.
C3_DistinctRecords ==
    /\ \A i, j \in 1..Len(served) :
           i # j => served[i].history_count # served[j].history_count
    /\ \A i \in 1..Len(served) :
           LET id == served[i].history_count
           IN  /\ id \in 1..Len(history)
               /\ WellFormedEntry(history[id])
               /\ ReadEntry(history[id]).a = served[i].a
               /\ ReadEntry(history[id]).b = served[i].b
               /\ ReadEntry(history[id]).result = served[i].result
               /\ last.endpoint = "get_history" =>
                      /\ id \in 1..Len(last.body.list)
                      /\ last.body.list[id] = history[id]

\* Two identical additions, 2 + 2 with no name, then a listing.
C3_Witness ==
    /\ Len(served) >= 2
    /\ served[1].a = 2 /\ served[1].b = 2
    /\ served[2].a = 2 /\ served[2].b = 2
    /\ history[1] = history[2]
    /\ last.endpoint = "get_history"
    /\ Len(last.body.list) = 2

\* C4: every stored record satisfies result = a + b, and every operation
\* leaves the history it found as a prefix of the history it leaves.
C4_AppendOnly ==
    /\ [](\A i \in 1..Len(history) :
              /\ WellFormedEntry(history[i])
              /\ ReadEntry(history[i]).result
                   = ReadEntry(history[i]).a + ReadEntry(history[i]).b)
    /\ [][IsPrefix(history, history')]_vars

\* An addition was made on a store that held a record already.
C4_Witness ==
    /\ Added
    /\ Len(last.before) >= 1
    /\ Len(history) = Len(last.before) + 1

\* C5: the record retrieved after an accepted addition carries the a, b,
\* result and name that were written.
C5_RoundTrip ==
    Added =>
        LET listed == get_history(history).ret
        IN  /\ Len(listed) >= 1
            /\ ReadEntry(listed[Len(listed)])
                 = [a |-> last.request.a, b |-> last.request.b,
                    result |-> last.body.result, name |-> last.request.name]

\* C6: a listing with a limit returns at most that many records, the most
\* recent ones, newest first.
C6_NewestFirstWithinLimit ==
    last.endpoint = "get_history" =>
        LET listed == last.body.list
            n == Len(history)
        IN  /\ Len(listed) = Min(last.limit, n)
            /\ \A i \in 1..Len(listed) : listed[i] = history[n - i + 1]

C8_NoTrainingWithoutArtifact ==
    (op = "train_and_save_model" /\ started.model = "absent") =>
        /\ downloads = started.downloads
        /\ fits = started.fits
        /\ dumps = started.dumps
        /\ modelFile = "absent"
        /\ ret \in {"running", "ModelNotReady"}

\* C9: the pipeline is fitted and dumped at most once; a call that finds the
\* artifact loads it and fetches, fits and writes nothing; a call that
\* returns leaves the artifact present, and no call trains once it is;
\* download_data fetches at most once, only when the dataset file is
\* absent, and leaves an existing dataset file as it was.
C9_TrainsOnce ==
    /\ fits <= 1
    /\ dumps <= 1
    /\ (op = "train_and_save_model" /\ started.model # "absent") =>
           /\ downloads = started.downloads
           /\ fits = started.fits
           /\ dumps = started.dumps
           /\ modelFile = started.model
           /\ dataFile = started.data
           /\ pc \in {"exists", "idle"}
           /\ pc = "idle" => ret = "loaded"
    /\ (op = "train_and_save_model" /\ pc = "idle" /\ ret # "error") =>
           modelFile # "absent"
    /\ (op = "train_and_save_model" /\ modelFile # "absent") =>
           pc \in {"exists", "idle"}
    /\ (op # "none" /\ started.data # "absent") =>
           /\ dataFile = started.data
           /\ downloads = started.downloads
    /\ (op # "none" /\ started.data = "absent") =>
           /\ downloads <= started.downloads + 1
           /\ dataFile = "absent" <=> downloads = started.downloads
    /\ (modelFile = "prebuilt" \/ dataFile = "preexisting") => mlDir

\* A call trained and saved the model, and a later call loaded it.
C9_Witness ==
    /\ op = "train_and_save_model"
    /\ pc = "idle"
    /\ ret = "loaded"
    /\ started.model = "trained"
    /\ fits = 1
    /\ calls >= 2

\* C10: a request that fails validation (a or b missing, or not an
\* integer) is answered 422 and changes nothing, and home, hello, health
\* and get_history change nothing; only an accepted addition appends.
C10_OnlyAcceptedAdditionsAppend ==
    [][/\ (last'.endpoint = "calc_add" /\
           (\/ last'.raw.a.kind = "missing"
            \/ last'.raw.b.kind = "missing"
            \/ (last'.raw.a.kind = "str" /\ ~IsIntText(last'.raw.a.text))
            \/ (last'.raw.b.kind = "str" /\ ~IsIntText(last'.raw.b.text))))
          => last'.status = 422
       /\ (last'.endpoint = "calc_add" /\ last'.status = 422)
          => (history' = history /\ served' = served)
       /\ last'.endpoint \in {"home", "hello", "health", "get_history"}
          => (history' = history /\ served' = served)
       /\ history' # history
          => (last'.endpoint = "calc_add" /\ last'.status = 200)]_vars

\* A request without b was rejected while the store held a record.
C10_Witness ==
    /\ Rejected
    /\ last.raw.b.kind = "missing"
    /\ Len(history) >= 1
    /\ history = last.before

=============================================================================
